---- MODULE Spec2Model ----
(***************************************************************************)
(* kayaku: the style-preserving JSON5 value model (backend/types.py), the  *)
(* encoder (backend/encode.py) and the loads/dumps entry points            *)
(* (backend/__init__.py).                                                  *)
(*                                                                         *)
(* A Python value is a record whose field cls names its class.  A text is  *)
(* a sequence of characters, each character a one-element TLA+ string;     *)
(* characters TLA+ cannot spell are written <BS> <VT> <NUL> <LS> <PS>.     *)
(* A Python attribute that was never set on an instance is a field the     *)
(* record does not have.                                                   *)
(***************************************************************************)
EXTENDS Integers, Sequences, FiniteSets, TLC

(* ------------------------------ bounds -------------------------------- *)
\* longest text of a string value drawn as an input
MaxStrLen == 2
\* largest change a caller applies to a number's magnitude
MaxDelta == 1
\* longest sequence / mapping drawn as an input
MaxLen == 2
\* largest magnitude of a host number drawn as an input
MaxInt == 2
\* how many times a caller changes the magnitude of a number it holds
MaxEdits == 1

(* --------------------------- text helpers ----------------------------- *)
Range(s) == {s[i] : i \in 1..Len(s)}

RECURSIVE Flatten(_)
\* "".join(parts)
Flatten(parts) ==
  IF parts = <<>> THEN <<>> ELSE Head(parts) \o Flatten(Tail(parts))

IsPrefix(p, s) == Len(p) <= Len(s) /\ SubSeq(s, 1, Len(p)) = p

RECURSIVE Pow10(_)
Pow10(k) == IF k <= 0 THEN 1 ELSE 10 * Pow10(k - 1)

DecDigits == <<"0", "1", "2", "3", "4", "5", "6", "7", "8", "9">>
HexDigitsLower == DecDigits \o <<"a", "b", "c", "d", "e", "f">>
HexDigitsUpper == DecDigits \o <<"A", "B", "C", "D", "E", "F">>

IsDecDigit(c) == c \in Range(DecDigits)
IsHexDigit(c) == c \in Range(HexDigitsLower) \cup Range(HexDigitsUpper)

DigitValue(c) ==
  IF c \in Range(HexDigitsLower)
  THEN (CHOOSE i \in 1..16 : HexDigitsLower[i] = c) - 1
  ELSE (CHOOSE i \in 1..16 : HexDigitsUpper[i] = c) - 1

RECURSIVE NatDigits(_, _)
\* the digits of n >= 0 in the given base, lower case, no prefix
NatDigits(n, base) ==
  IF n < base THEN <<HexDigitsLower[n + 1]>>
  ELSE NatDigits(n \div base, base) \o <<HexDigitsLower[(n % base) + 1]>>

\* int.__repr__
IntRepr(n) == IF n < 0 THEN <<"-">> \o NatDigits(-n, 10) ELSE NatDigits(n, 10)

\* hex(n)
HexRepr(n) ==
  IF n < 0 THEN <<"-", "0", "x">> \o NatDigits(-n, 16)
  ELSE <<"0", "x">> \o NatDigits(n, 16)

RECURSIVE DigitsValue(_, _)
\* the number a non-empty run of digits spells in the given base
DigitsValue(ds, base) ==
  IF ds = <<>> THEN 0
  ELSE DigitsValue(SubSeq(ds, 1, Len(ds) - 1), base) * base + DigitValue(ds[Len(ds)])

HasSign(t) == t # <<>> /\ t[1] \in {"+", "-"}
Unsigned(t) == IF HasSign(t) THEN Tail(t) ELSE t
SignOf(t) == IF t # <<>> /\ t[1] = "-" THEN -1 ELSE 1

\* the int of a sign and a run of digits in the given base
IntDigits(sg, d, base) ==
  IF d # <<>> /\ (\A i \in 1..Len(d) : IF base = 10 THEN IsDecDigit(d[i]) ELSE IsHexDigit(d[i]))
  THEN [ok |-> TRUE, v |-> sg * DigitsValue(d, base)]
  ELSE [ok |-> FALSE, v |-> 0]

\* int(text): [ok, v]; ok = FALSE is ValueError
ParseDec(t) == IntDigits(SignOf(t), Unsigned(t), 10)

\* the digits of an unsigned hexadecimal text: the 0x / 0X prefix is optional
HexDigitsOf(u) ==
  IF Len(u) >= 2 /\ u[1] = "0" /\ u[2] \in {"x", "X"} THEN SubSeq(u, 3, Len(u)) ELSE u

\* int(text, base=16)
ParseHex(t) == IntDigits(SignOf(t), HexDigitsOf(Unsigned(t)), 16)

(***************************************************************************)
(* Floats.  A float is fk in {"fin", "nan", "inf", "ninf"} and, when       *)
(* finite, its value in tenths t (1.5 is t = 15): the inputs are limited   *)
(* to floats with at most one decimal and no negative zero.                *)
(***************************************************************************)
Fin(t) == [fk |-> "fin", t |-> t]
NaN == [fk |-> "nan", t |-> 0]
PosInf == [fk |-> "inf", t |-> 0]
NegInf == [fk |-> "ninf", t |-> 0]

\* float.__repr__
FloatRepr(f) ==
  CASE f.fk = "nan" -> <<"n", "a", "n">>
    [] f.fk = "inf" -> <<"i", "n", "f">>
    [] f.fk = "ninf" -> <<"-", "i", "n", "f">>
    [] OTHER ->
         LET a == IF f.t < 0 THEN -f.t ELSE f.t IN
         (IF f.t < 0 THEN <<"-">> ELSE <<>>)
           \o NatDigits(a \div 10, 10) \o <<".">> \o NatDigits(a % 10, 10)

\* the index of the first character of t that is in set, or 0
FirstIn(t, set) ==
  IF \E i \in 1..Len(t) : t[i] \in set
  THEN CHOOSE i \in 1..Len(t) : t[i] \in set /\ \A j \in 1..(i - 1) : t[j] \notin set
  ELSE 0

AllDec(t) == \A i \in 1..Len(t) : IsDecDigit(t[i])

\* sg * m * 10^sh tenths, when that is a whole number of tenths
FloatScaled(sg, m, sh) ==
  IF sh >= 0 THEN [ok |-> TRUE, f |-> Fin(sg * m * Pow10(sh))]
  ELSE IF m % Pow10(-sh) = 0 THEN [ok |-> TRUE, f |-> Fin(sg * (m \div Pow10(-sh)))]
  ELSE [ok |-> FALSE, f |-> NaN]

\* the float of a sign, the digits before and after the point, and the parsed
\* exponent
FloatDigits(sg, ip, fp, ex) ==
  IF ip \o fp # <<>> /\ AllDec(ip \o fp) /\ ex.ok
  THEN FloatScaled(sg, DigitsValue(ip \o fp, 10), ex.v + 1 - Len(fp))
  ELSE [ok |-> FALSE, f |-> NaN]

\* the mantissa split at its point, at index dot or nowhere
FloatMantissa(sg, mant, dot, ex) ==
  IF dot = 0 THEN FloatDigits(sg, mant, <<>>, ex)
  ELSE FloatDigits(sg, SubSeq(mant, 1, dot - 1), SubSeq(mant, dot + 1, Len(mant)), ex)

FloatParts(sg, mant, ex) == FloatMantissa(sg, mant, FirstIn(mant, {"."}), ex)

\* the unsigned text split at its exponent mark, at index k or nowhere
FloatExponent(sg, u, k) ==
  IF k = 0 THEN FloatParts(sg, u, [ok |-> TRUE, v |-> 0])
  ELSE FloatParts(sg, SubSeq(u, 1, k - 1), ParseDec(SubSeq(u, k + 1, Len(u))))

FloatUnsigned(sg, u) ==
  CASE u \in {<<"N", "a", "N">>, <<"n", "a", "n">>} -> [ok |-> TRUE, f |-> NaN]
    [] u \in {<<"I", "n", "f", "i", "n", "i", "t", "y">>, <<"i", "n", "f">>} ->
         [ok |-> TRUE, f |-> IF sg < 0 THEN NegInf ELSE PosInf]
    [] OTHER -> FloatExponent(sg, u, FirstIn(u, {"e", "E"}))

\* float(text): [ok, f]; ok = FALSE is ValueError, or a value with more
\* than one decimal, which the float model above does not hold
ParseFloat(t) == FloatUnsigned(SignOf(t), Unsigned(t))

(* ----------------------- classes (types.py) --------------------------- *)
\* the classes a class is an instance of (its method resolution order)
Bases(cls) ==
  CASE cls = "bool" -> {"bool", "int"}
    [] cls = "Integer" -> {"Integer", "int", "JNumber", "JType"}
    [] cls = "HexInteger" -> {"HexInteger", "Integer", "int", "JNumber", "JType"}
    [] cls = "Float" -> {"Float", "float", "JNumber", "JType"}
    [] cls = "BoolWrapper" ->
         {"BoolWrapper", "Integer", "int", "JNumber", "JWrapper", "JType"}
    [] cls = "JString" -> {"JString", "JType", "str"}
    [] cls = "Identifier" -> {"Identifier", "JType", "str"}
    [] cls = "JWrapper" -> {"JWrapper", "JType"}
    [] cls = "JObject" -> {"JObject", "JContainer", "JType", "dict"}
    [] cls = "Array" -> {"Array", "JContainer", "JType", "list"}
    [] OTHER -> {cls}

IsInstance(o, classes) == Bases(o.cls) \cap classes # {}

\* encode.py imports JLiteral from types.py, where the literal wrapper is
\* the class JWrapper
JLiteral == "JWrapper"

Quotes == {"'", "\""}
DOUBLE == "\""
SINGLE == "'"

\* getattr(o, name, default); a class attribute is the default of its instances
Attr(o, name, default) == IF name \in DOMAIN o THEN o[name] ELSE default

json_before(o) == Attr(o, "json_before", <<>>)
json_after(o) == Attr(o, "json_after", <<>>)
origin(o) == Attr(o, "origin", <<>>)
quote(o) == Attr(o, "quote", DOUBLE)
linebreaks(o) == Attr(o, "linebreaks", <<>>)

\* the int an instance of int holds
IntOf(o) == IF o.cls = "bool" THEN (IF o.b THEN 1 ELSE 0) ELSE o.v

\* the float an instance of int or float compares as
NumOf(o) == IF IsInstance(o, {"int"}) THEN Fin(10 * IntOf(o)) ELSE o.f

IsNumeric(o) == IsInstance(o, {"int", "float"})

\* ==, <, > of int and float; every comparison with NaN is false
NumEq(x, y) == x.fk # "nan" /\ y.fk # "nan" /\ x = y
NumGt0(x) == x.fk = "inf" \/ (x.fk = "fin" /\ x.t > 0)

\* JType.__post_init__
JTypePostInit(o) == [json_before |-> <<>>, json_after |-> <<>>] @@ o

\* JContainer.__post_init__(tail, trailing_comma); tail or [] is tail
JContainerPostInit(o, tail, trailing_comma) ==
  [json_container_tail |-> tail, json_container_trailing_comma |-> trailing_comma]
    @@ JTypePostInit(o)

\* JString.__post_init__(quote, linebreaks)
JStringPostInit(o, q, lbs) == [quote |-> q, linebreaks |-> lbs] @@ JTypePostInit(o)

\* JNumber.__post_init__(origin); None and "" are both the empty text
JNumberPostInit(o, org) == JTypePostInit([origin |-> org] @@ o)

\* o.__post_init__() with every parameter at its default, as the class of o
\* resolves it
PostInit(o) ==
  CASE IsInstance(o, {"JNumber"}) -> JNumberPostInit(o, <<>>)
    [] IsInstance(o, {"JContainer"}) -> JContainerPostInit(o, <<>>, FALSE)
    [] IsInstance(o, {"JString"}) -> JStringPostInit(o, DOUBLE, <<>>)
    [] OTHER -> JTypePostInit(o)

\* the value of a host object with the class replaced: Array(obj), JString(obj)...
Rewrap(o, cls) == [o EXCEPT !.cls = cls]

\* the classes convert wraps in a JWrapper, besides None
OpaqueClasses == {"bool", "date", "time", "datetime", "Pattern", "Enum"}

\* convert without its first test: a value that is already a JType is wrapped
\* and initialised again
convert_rewrapping(o) ==
  CASE IsInstance(o, {"list", "tuple"}) ->
         [ok |-> TRUE, val |-> PostInit(Rewrap(o, "Array"))]
    [] IsInstance(o, OpaqueClasses) \/ o.cls = "NoneType" ->
         [ok |-> TRUE, val |-> PostInit([cls |-> "JWrapper", value |-> o])]
    [] IsInstance(o, {"dict"}) -> [ok |-> TRUE, val |-> PostInit(Rewrap(o, "JObject"))]
    [] IsInstance(o, {"str"}) -> [ok |-> TRUE, val |-> PostInit(Rewrap(o, "JString"))]
    [] IsInstance(o, {"int"}) -> [ok |-> TRUE, val |-> PostInit(Rewrap(o, "Integer"))]
    [] IsInstance(o, {"float"}) -> [ok |-> TRUE, val |-> PostInit(Rewrap(o, "Float"))]
    [] IsInstance(o, {"JType"}) -> [ok |-> TRUE, val |-> PostInit(o)]
    [] OTHER -> [ok |-> FALSE, val |-> o]

\* convert(obj): [ok, val]; ok = FALSE is TypeError
convert(o) ==
  CASE IsInstance(o, {"JType"}) -> [ok |-> TRUE, val |-> o]
    [] IsInstance(o, {"list", "tuple"}) ->
         [ok |-> TRUE, val |-> PostInit(Rewrap(o, "Array"))]
    [] IsInstance(o, OpaqueClasses) \/ o.cls = "NoneType" ->
         [ok |-> TRUE, val |-> PostInit([cls |-> "JWrapper", value |-> o])]
    [] IsInstance(o, {"dict"}) -> [ok |-> TRUE, val |-> PostInit(Rewrap(o, "JObject"))]
    [] IsInstance(o, {"str"}) -> [ok |-> TRUE, val |-> PostInit(Rewrap(o, "JString"))]
    [] IsInstance(o, {"int"}) -> [ok |-> TRUE, val |-> PostInit(Rewrap(o, "Integer"))]
    [] IsInstance(o, {"float"}) -> [ok |-> TRUE, val |-> PostInit(Rewrap(o, "Float"))]
    [] OTHER -> [ok |-> FALSE, val |-> o]

\* text.replace(old, new) for the two words float.__repr__ can produce
ReplaceNanInf(t) ==
  CASE t = <<"n", "a", "n">> -> <<"N", "a", "N">>
    [] t = <<"i", "n", "f">> -> <<"I", "n", "f", "i", "n", "i", "t", "y">>
    [] t = <<"-", "i", "n", "f">> -> <<"-", "I", "n", "f", "i", "n", "i", "t", "y">>
    [] OTHER -> t

\* Float.__round_dump__ with c = float(self.origin): [ok, out]; ok = FALSE is
\* the ValueError of float
FloatRoundDumpWith(o, org, c) ==
  IF org # <<>> /\ ~c.ok THEN [ok |-> FALSE, out |-> <<>>]
  ELSE IF org # <<>> /\ ((c.f.fk = "nan" /\ o.f.fk = "nan") \/ NumEq(o.f, c.f))
       THEN [ok |-> TRUE, out |-> org]
       ELSE [ok |-> TRUE, out |-> ReplaceNanInf(FloatRepr(o.f))]

\* Float.__round_dump__
FloatRoundDump(o) == FloatRoundDumpWith(o, origin(o), ParseFloat(origin(o)))

\* Integer.__round_dump__ and HexInteger.__round_dump__ with c = int(self.origin)
\* or int(self.origin, base=16) and canon = int.__repr__(self) or hex(self)
IntRoundDumpWith(o, org, c, canon) ==
  IF org # <<>> /\ ~c.ok THEN [ok |-> FALSE, out |-> <<>>]
  ELSE IF org # <<>> /\ c.v = o.v THEN [ok |-> TRUE, out |-> org]
       ELSE [ok |-> TRUE, out |-> canon]

\* Integer.__round_dump__
IntegerRoundDump(o) == IntRoundDumpWith(o, origin(o), ParseDec(origin(o)), IntRepr(o.v))

\* HexInteger.__round_dump__
HexIntegerRoundDump(o) == IntRoundDumpWith(o, origin(o), ParseHex(origin(o)), HexRepr(o.v))

\* str(bool)
BoolStr(b) == IF b THEN <<"T", "r", "u", "e">> ELSE <<"F", "a", "l", "s", "e">>

\* str.lower() for the two words above
Lower(t) ==
  IF t = <<"T", "r", "u", "e">> THEN <<"t", "r", "u", "e">>
  ELSE <<"f", "a", "l", "s", "e">>

\* BoolWrapper.__round_dump__
BoolWrapperRoundDump(o) == [ok |-> TRUE, out |-> Lower(BoolStr(o.value.b))]

\* o.__round_dump__() as the class of o resolves it
RoundDump(o) ==
  CASE o.cls = "BoolWrapper" -> BoolWrapperRoundDump(o)
    [] o.cls = "HexInteger" -> HexIntegerRoundDump(o)
    [] o.cls = "Integer" -> IntegerRoundDump(o)
    [] OTHER -> FloatRoundDump(o)

\* str(o) of a JNumber: BoolWrapper.__str__, HexInteger.__str__,
\* Integer.__str__, and float.__repr__ for Float, which defines no __str__
Str(o) ==
  CASE o.cls = "BoolWrapper" -> BoolStr(o.value.b)
    [] o.cls = "HexInteger" -> HexRepr(o.v)
    [] o.cls = "Integer" -> IntRepr(o.v)
    [] OTHER -> FloatRepr(o.f)

(* -------------------- equality and hashing (types.py) ----------------- *)
RECURSIVE PyEq(_, _)
RECURSIVE BuiltinEq(_, _)

\* the keys of a dict are str, JString or Identifier: they compare as str
KeyIndex(d, k) ==
  IF \E i \in 1..Len(d.keys) : d.keys[i].s = k.s
  THEN CHOOSE i \in 1..Len(d.keys) : d.keys[i].s = k.s
  ELSE 0

\* the __eq__ a value inherits from its built-in base (int, float, str, dict,
\* list, tuple) or, without one, from its own class; a pair no __eq__ accepts
\* compares unequal
BuiltinEq(a, b) ==
  CASE IsNumeric(a) /\ IsNumeric(b) -> NumEq(NumOf(a), NumOf(b))
    [] IsInstance(a, {"str"}) /\ IsInstance(b, {"str"}) -> a.s = b.s
    [] IsInstance(a, {"list"}) /\ IsInstance(b, {"list"}) ->
         /\ Len(a.items) = Len(b.items)
         /\ \A i \in 1..Len(a.items) : PyEq(a.items[i], b.items[i])
    [] IsInstance(a, {"tuple"}) /\ IsInstance(b, {"tuple"}) ->
         /\ Len(a.items) = Len(b.items)
         /\ \A i \in 1..Len(a.items) : PyEq(a.items[i], b.items[i])
    [] IsInstance(a, {"dict"}) /\ IsInstance(b, {"dict"}) ->
         /\ Len(a.keys) = Len(b.keys)
         /\ \A i \in 1..Len(a.keys) :
              /\ KeyIndex(b, a.keys[i]) # 0
              /\ PyEq(a.vals[i], b.vals[KeyIndex(b, a.keys[i])])
    [] a.cls = "NoneType" /\ b.cls = "NoneType" -> TRUE
    [] a.cls \in {"date", "Enum", "Pattern"} /\ b.cls = a.cls -> a = b
    [] OTHER -> FALSE

\* an __eq__ of JWrapper that also compares the atoms before the two values
JWrapperEq_styled(self, other) ==
  /\ BuiltinEq(self.value, IF IsInstance(other, {"JWrapper"}) THEN other.value ELSE other)
  /\ json_before(self) = json_before(other)

\* JWrapper.__eq__
JWrapperEq(self, other) ==
  BuiltinEq(self.value, IF IsInstance(other, {"JWrapper"}) THEN other.value ELSE other)

\* a == b: JWrapper.__eq__ when the class of a (or, reflected, of b) resolves
\* __eq__ to it; BoolWrapper finds int.__eq__ first
PyEq(a, b) ==
  IF a.cls = "JWrapper" THEN JWrapperEq(a, b)
  ELSE IF b.cls = "JWrapper" THEN JWrapperEq(b, a)
  ELSE BuiltinEq(a, b)

\* hash() of a number: equal numbers hash alike, hash(-1) is -2, and the hash
\* of a NaN is that of its identity
HashNum(x) ==
  CASE x.fk = "nan" -> [k |-> "nan", n |-> 0, s |-> <<>>]
    [] x.fk = "inf" -> [k |-> "num", n |-> 314159, s |-> <<>>]
    [] x.fk = "ninf" -> [k |-> "num", n |-> -314159, s |-> <<>>]
    [] x.t % 10 = 0 ->
         [k |-> "num", n |-> IF x.t = -10 THEN -2 ELSE x.t \div 10, s |-> <<>>]
    [] OTHER -> [k |-> "frac", n |-> x.t, s |-> <<>>]

\* the __hash__ of a built-in value; list and dict have none (ok = FALSE)
BuiltinHash(o) ==
  CASE IsNumeric(o) -> [ok |-> TRUE, h |-> HashNum(NumOf(o))]
    [] IsInstance(o, {"str"}) -> [ok |-> TRUE, h |-> [k |-> "str", n |-> 0, s |-> o.s]]
    [] IsInstance(o, {"list", "dict"}) ->
         [ok |-> FALSE, h |-> [k |-> "none", n |-> 0, s |-> <<>>]]
    [] OTHER -> [ok |-> TRUE, h |-> [k |-> o.cls, n |-> Attr(o, "day", 0), s |-> <<>>]]

\* JWrapper.__hash__
JWrapperHash(self) == BuiltinHash(self.value)

\* hash(o)
PyHash(o) == IF o.cls = "JWrapper" THEN JWrapperHash(o) ELSE BuiltinHash(o)

(* --------------------------- encode.py -------------------------------- *)
\* wsc.encode_wsc(w): the exact source text of a whitespace run or a comment
encode_wsc(w) ==
  IF w.kind = "block" THEN <<"/", "*">> \o w.text \o <<"*", "/">> ELSE w.text

\* "".join(wsc.encode_wsc(w) for w in atoms)
WscText(atoms) == Flatten([i \in 1..Len(atoms) |-> encode_wsc(atoms[i])])

\* the characters ESCAPES maps, and what it maps them to
ESCAPES ==
  [c \in {"\\", "\n", "\r", "<BS>", "\f", "\t", "<VT>", "<NUL>", "<LS>", "<PS>"} |->
     CASE c = "\\" -> <<"\\", "\\">>
       [] c = "\n" -> <<"\\", "n">>
       [] c = "\r" -> <<"\\", "r">>
       [] c = "<BS>" -> <<"\\", "b">>
       [] c = "\f" -> <<"\\", "f">>
       [] c = "\t" -> <<"\\", "t">>
       [] c = "<VT>" -> <<"\\", "v">>
       [] c = "<NUL>" -> <<"\\", "0">>
       [] c = "<LS>" -> <<"\\", "\\", "u", "2", "0", "2", "8">>
       [] c = "<PS>" -> <<"\\", "\\", "u", "2", "0", "2", "9">>]

\* the escapes a call of escape_string passes by keyword: Encoder.encode_string
\* passes none
NoEscapes == [c \in {} |-> <<>>]

\* string.translate(str.maketrans(table))
Translate(t, table) ==
  Flatten([i \in 1..Len(t) |-> IF t[i] \in DOMAIN table THEN table[t[i]] ELSE <<t[i]>>])

\* out[:k] and out[k:] for k >= 0
SliceTo(t, k) == SubSeq(t, 1, IF k < Len(t) THEN k ELSE Len(t))
SliceFrom(t, k) == SubSeq(t, (IF k < Len(t) THEN k ELSE Len(t)) + 1, Len(t))

RECURSIVE InsertLinebreaks(_, _)
\* for line_break in string.linebreaks: out = out[:lb - 1] + "\\\n" + out[lb - 1:]
InsertLinebreaks(out, lbs) ==
  IF lbs = <<>> THEN out
  ELSE InsertLinebreaks(
         SliceTo(out, Head(lbs) - 1) \o <<"\\", "\n">> \o SliceFrom(out, Head(lbs) - 1),
         Tail(lbs))

\* escape_string(string, **escapes); ESCAPES wins over escapes on a shared key
escape_string(o, escapes) ==
  LET out == Translate(o.s, ESCAPES @@ escapes) IN
  IF IsInstance(o, {"JString"}) THEN InsertLinebreaks(out, linebreaks(o)) ELSE out

\* what a run of writes leaves: the text written and the exception raised
Write(t) == [out |-> t, err |-> "none"]
Raise(e) == [out |-> <<>>, err |-> e]

AttributeError == "AttributeError: prefixed"
UnknownType == "NotImplementedError: Unknown type"
UnknownLiteral == "NotImplementedError: Unknown literal"

\* a, then b unless a raised
Then(a, b) == IF a.err # "none" THEN a ELSE [out |-> a.out \o b.out, err |-> b.err]

\* a with_style that writes json_after in a finally clause, whether or not the
\* body raised
with_style_finally(o, body) ==
  [out |-> Then(Write(WscText(json_before(o))), body).out \o WscText(json_after(o)),
   err |-> Then(Write(WscText(json_before(o))), body).err]

\* with_style: json_before, the body, json_after
with_style(o, body) ==
  Then(Then(Write(WscText(json_before(o))), body), Write(WscText(json_after(o))))

\* Encoder.encode_literal
encode_literal(o) ==
  with_style(o,
    CASE o.value.cls = "bool" /\ o.value.b -> Write(<<"t", "r", "u", "e">>)
      [] o.value.cls = "bool" /\ ~o.value.b -> Write(<<"f", "a", "l", "s", "e">>)
      [] o.value.cls = "NoneType" -> Write(<<"n", "u", "l", "l">>)
      [] OTHER -> Raise(UnknownLiteral))

\* (Integer if isinstance(obj, int) else Float)(obj): no __post_init__ runs
AsJNumber(o) ==
  IF IsInstance(o, {"JNumber"}) THEN o
  ELSE IF IsInstance(o, {"int"}) THEN [cls |-> "Integer", v |-> IntOf(o)]
       ELSE [cls |-> "Float", f |-> o.f]

\* the body of encode_number once obj is a JNumber n and presentation = str(n)
encode_number_body(n, presentation) ==
  IF NumGt0(NumOf(n))
  THEN IF "prefixed" \notin DOMAIN n THEN Raise(AttributeError)
       ELSE Write(IF n.prefixed THEN <<"+">> \o presentation ELSE presentation)
  ELSE Write(presentation)

\* Encoder.encode_number
encode_number(o) == with_style(o, encode_number_body(AsJNumber(o), Str(AsJNumber(o))))

\* Encoder.encode_string
encode_string(o) ==
  with_style(o,
    CASE IsInstance(o, {"JString"}) ->
           Write(<<quote(o)>> \o escape_string(o, NoEscapes) \o <<quote(o)>>)
      [] IsInstance(o, {"Identifier"}) -> Write(o.s)
      [] OTHER -> Write(<<"\"">> \o escape_string(o, NoEscapes) \o <<"\"">>))

RECURSIVE encode(_)
RECURSIVE encode_pairs(_, _)
RECURSIVE encode_items(_, _)

\* Encoder.encode_pair
encode_pair(k, v) == Then(Then(encode(k), Write(<<":">>)), encode(v))

\* the loop of encode_dict from pair i on; the keys of a dict are distinct
\* objects, so k is last_k only at the last pair
encode_pairs(o, i) ==
  IF i > Len(o.keys) THEN Write(<<>>)
  ELSE Then(
         Then(encode_pair(o.keys[i], o.vals[i]),
              IF i # Len(o.keys) \/ Attr(o, "json_container_trailing_comma", FALSE)
              THEN Write(<<",">>) ELSE Write(<<>>)),
         encode_pairs(o, i + 1))

\* Encoder.encode_dict
encode_dict(o) ==
  with_style(o,
    Then(Then(Then(Then(
      Write(<<"{">>),
      Write(WscText(Attr(o, "json_container_head", <<>>)))),
      IF o.keys # <<>> THEN encode_pairs(o, 1) ELSE Write(<<>>)),
      Write(WscText(Attr(o, "json_container_tail", <<>>)))),
      Write(<<"}">>)))

\* the loop of encode_iterable from element i on; ids[i] is the identity of
\* the object at position i, and v is last_v compares identities
encode_items(o, i) ==
  IF i > Len(o.items) THEN Write(<<>>)
  ELSE Then(
         Then(encode(o.items[i]),
              IF o.ids[i] # o.ids[Len(o.items)]
                 \/ Attr(o, "json_container_trailing_comma", FALSE)
              THEN Write(<<",">>) ELSE Write(<<>>)),
         encode_items(o, i + 1))

\* Encoder.encode_iterable
encode_iterable(o) ==
  with_style(o,
    Then(Then(Then(Then(
      Write(<<"[">>),
      Write(WscText(Attr(o, "json_container_head", <<>>)))),
      IF o.items # <<>> THEN encode_items(o, 1) ELSE Write(<<>>)),
      Write(WscText(Attr(o, "json_container_tail", <<>>)))),
      Write(<<"]">>)))

\* Encoder.encode: the isinstance chain in the order of the code
encode(o) ==
  IF IsInstance(o, {"JNumber", "int", "float"}) THEN encode_number(o)
  ELSE IF IsInstance(o, {"bool"})
       THEN encode_literal([cls |-> "JWrapper", value |-> o])
  ELSE IF IsInstance(o, {"str"}) THEN encode_string(o)
  ELSE IF IsInstance(o, {"dict"}) THEN encode_dict(o)
  ELSE IF IsInstance(o, {"list", "tuple"}) THEN encode_iterable(o)
  ELSE IF IsInstance(o, {JLiteral}) THEN encode_literal(o)
  ELSE Raise(UnknownType)

\* dumps(obj): the contents of a fresh StringIO when encode returns or raises
dumps(o) == encode(o)

(* ------------------ the parser (backend/__init__.py) ------------------ *)
(* loads hands the text to the grammar and the transformer.  What they     *)
(* build is the tree of the source's exact layout: each number with its    *)
(* origin text and its explicit + recorded, each string with its quote and  *)
(* its escaped line breaks, each run of whitespace and each comment         *)
(* attached before or after the value it surrounds, or in the tail of the   *)
(* container it closes.                                                     *)
At(t, i) == IF i >= 1 /\ i <= Len(t) THEN t[i] ELSE "<EOF>"

WhiteSpaceChars == {" ", "\n", "\t"}
Delimiters == WhiteSpaceChars \cup {",", ":", "[", "]", "{", "}", "/", "<EOF>"}

RECURSIVE RunEnd(_, _, _)
\* the first position from i on whose character is not in set
RunEnd(t, i, set) == IF At(t, i) \in set /\ i <= Len(t) THEN RunEnd(t, i + 1, set) ELSE i

RECURSIVE TokenEnd(_, _)
\* the first position from i on that holds a delimiter
TokenEnd(t, i) == IF At(t, i) \in Delimiters THEN i ELSE TokenEnd(t, i + 1)

RECURSIVE CommentEnd(_, _)
\* the position of the * that closes the block comment opened before i
CommentEnd(t, i) ==
  IF i > Len(t) \/ (At(t, i) = "*" /\ At(t, i + 1) = "/") THEN i ELSE CommentEnd(t, i + 1)

RECURSIVE SkipWsc(_, _)

\* atom, then the atoms of rest
WscCons(atom, rest) == [atoms |-> <<atom>> \o rest.atoms, pos |-> rest.pos]

\* the whitespace run from i to e - 1, then what follows
WscRun(t, i, e) == WscCons([kind |-> "ws", text |-> SubSeq(t, i, e - 1)], SkipWsc(t, e))

\* the block comment whose body is from i + 2 to e - 1, then what follows
WscBlock(t, i, e) ==
  WscCons([kind |-> "block", text |-> SubSeq(t, i + 2, e - 1)], SkipWsc(t, e + 2))

\* the whitespace runs and block comments from i on: [atoms, pos]
SkipWsc(t, i) ==
  IF At(t, i) \in WhiteSpaceChars THEN WscRun(t, i, RunEnd(t, i, WhiteSpaceChars))
  ELSE IF At(t, i) = "/" /\ At(t, i + 1) = "*" THEN WscBlock(t, i, CommentEnd(t, i + 2))
  ELSE [atoms |-> <<>>, pos |-> i]

\* the character an escape sequence \c stands for
Unescape(c) ==
  CASE c = "n" -> "\n" [] c = "r" -> "\r" [] c = "t" -> "\t" [] c = "f" -> "\f"
    [] c = "b" -> "<BS>" [] c = "v" -> "<VT>" [] c = "0" -> "<NUL>"
    [] OTHER -> c

RECURSIVE ScanString(_, _, _, _, _, _)
\* the body of a string from i on, up to the closing quote q; start is the
\* position of the first character of the body
ScanString(t, i, q, start, text, lbs) ==
  IF i > Len(t) THEN [ok |-> FALSE, s |-> text, linebreaks |-> lbs, pos |-> i]
  ELSE IF t[i] = q THEN [ok |-> TRUE, s |-> text, linebreaks |-> lbs, pos |-> i + 1]
  ELSE IF t[i] = "\\" /\ At(t, i + 1) = "\n"
       THEN ScanString(t, i + 2, q, start, text, Append(lbs, i - start + 1))
  ELSE IF t[i] = "\\"
       THEN ScanString(t, i + 2, q, start, Append(text, Unescape(At(t, i + 1))), lbs)
  ELSE ScanString(t, i + 1, q, start, Append(text, t[i]), lbs)

\* a parsed magnitude as a number of class cls with its origin text and its
\* explicit + recorded
NumberOf(cls, r, tok) ==
  [ok |-> r.ok,
   val |-> [cls |-> cls, origin |-> tok, prefixed |-> (At(tok, 1) = "+")]
             @@ (IF cls = "Float" THEN [f |-> r.f] ELSE [v |-> r.v])]

\* a number token with u its unsigned part: HexInteger, Integer or Float
NumberToken(tok, u) ==
  IF Len(u) >= 2 /\ u[1] = "0" /\ u[2] \in {"x", "X"}
  THEN NumberOf("HexInteger", ParseHex(tok), tok)
  ELSE IF u # <<>> /\ AllDec(u) THEN NumberOf("Integer", ParseDec(tok), tok)
  ELSE NumberOf("Float", ParseFloat(tok), tok)

ParseNumber(tok) == NumberToken(tok, Unsigned(tok))

\* a token that is not a string: a literal name or a number
ParseToken(tok) ==
  CASE tok = <<"t", "r", "u", "e">> ->
         [ok |-> TRUE, val |-> [cls |-> "JWrapper", value |-> [cls |-> "bool", b |-> TRUE]]]
    [] tok = <<"f", "a", "l", "s", "e">> ->
         [ok |-> TRUE, val |-> [cls |-> "JWrapper", value |-> [cls |-> "bool", b |-> FALSE]]]
    [] tok = <<"n", "u", "l", "l">> ->
         [ok |-> TRUE, val |-> [cls |-> "JWrapper", value |-> [cls |-> "NoneType"]]]
    [] OTHER -> ParseNumber(tok)

\* the token from p to e - 1
TokenAt(r, p, e) == [ok |-> e > p /\ r.ok, pos |-> e, val |-> r.val]

\* the JString of a scanned body
StringOf(q, r) ==
  [ok |-> r.ok, pos |-> r.pos,
   val |-> [cls |-> "JString", s |-> r.s, quote |-> q, linebreaks |-> r.linebreaks]]

\* a quoted string starting at i
ParseString(t, i) == StringOf(t[i], ScanString(t, i + 1, t[i], i + 1, <<>>, <<>>))

RECURSIVE ParseValue(_, _)
RECURSIVE ParseItems(_, _, _)
RECURSIVE ParseMembers(_, _, _, _)

\* a parsed value with the atoms before and after it
Styled(w1, core, w2) ==
  [ok |-> core.ok, pos |-> w2.pos,
   val |-> [json_before |-> w1.atoms, json_after |-> w2.atoms] @@ core.val]

\* an Identifier key from p to e - 1
IdentifierAt(t, p, e) ==
  [ok |-> e > p, pos |-> e, val |-> [cls |-> "Identifier", s |-> SubSeq(t, p, e - 1)]]

\* an object key starting at p: a string or an identifier
KeyAt(t, p) ==
  IF At(t, p) \in Quotes THEN ParseString(t, p) ELSE IdentifierAt(t, p, TokenEnd(t, p))

\* a key, the atoms around it and its colon
KeyColon(t, w1, k, w2) ==
  [ok |-> k.ok /\ At(t, w2.pos) = ":", pos |-> w2.pos + 1,
   val |-> [json_before |-> w1.atoms, json_after |-> w2.atoms] @@ k.val]

KeyThen(t, w1, k) == KeyColon(t, w1, k, SkipWsc(t, k.pos))

KeyAfter(t, w1) == KeyThen(t, w1, KeyAt(t, w1.pos))

\* an object key with the whitespace and comments around it, up to its colon
ParseKey(t, i) == KeyAfter(t, SkipWsc(t, i))

\* the array so far, after the element v
ItemsNext(t, acc, v) ==
  IF ~v.ok THEN [ok |-> FALSE, items |-> acc, tail |-> <<>>, comma |-> FALSE, pos |-> v.pos]
  ELSE IF At(t, v.pos) = "," THEN ParseItems(t, v.pos + 1, Append(acc, v.val))
  ELSE [ok |-> At(t, v.pos) = "]", items |-> Append(acc, v.val), tail |-> <<>>,
        comma |-> FALSE, pos |-> v.pos + 1]

\* the array so far, w being what lies before its next element or its ]
ItemsAt(t, i, acc, w) ==
  IF At(t, w.pos) = "]"
  THEN [ok |-> TRUE, items |-> acc, tail |-> w.atoms, comma |-> acc # <<>>, pos |-> w.pos + 1]
  ELSE ItemsNext(t, acc, ParseValue(t, i))

\* the elements of an array after its [ or after a comma
ParseItems(t, i, acc) == ItemsAt(t, i, acc, SkipWsc(t, i))

\* the object so far, after the member k: v
MembersNext(t, ks, vs, k, v) ==
  IF ~(k.ok /\ v.ok)
  THEN [ok |-> FALSE, keys |-> ks, vals |-> vs, tail |-> <<>>, comma |-> FALSE, pos |-> v.pos]
  ELSE IF At(t, v.pos) = ","
  THEN ParseMembers(t, v.pos + 1, Append(ks, k.val), Append(vs, v.val))
  ELSE [ok |-> At(t, v.pos) = "}", keys |-> Append(ks, k.val), vals |-> Append(vs, v.val),
        tail |-> <<>>, comma |-> FALSE, pos |-> v.pos + 1]

MembersValue(t, ks, vs, k) ==
  IF k.ok THEN MembersNext(t, ks, vs, k, ParseValue(t, k.pos))
  ELSE [ok |-> FALSE, keys |-> ks, vals |-> vs, tail |-> <<>>, comma |-> FALSE, pos |-> k.pos]

\* the object so far, w being what lies before its next key or its }
MembersAt(t, i, ks, vs, w) ==
  IF At(t, w.pos) = "}"
  THEN [ok |-> TRUE, keys |-> ks, vals |-> vs, tail |-> w.atoms, comma |-> ks # <<>>,
        pos |-> w.pos + 1]
  ELSE MembersValue(t, ks, vs, ParseKey(t, i))

\* the members of an object after its { or after a comma
ParseMembers(t, i, ks, vs) == MembersAt(t, i, ks, vs, SkipWsc(t, i))

\* the Array of parsed elements; each element is an object of its own
ArrayOf(arr) ==
  [ok |-> arr.ok, pos |-> arr.pos,
   val |-> [cls |-> "Array", items |-> arr.items, ids |-> [j \in 1..Len(arr.items) |-> j],
            json_container_tail |-> arr.tail,
            json_container_trailing_comma |-> arr.comma]]

\* the JObject of parsed members
ObjectOf(mem) ==
  [ok |-> mem.ok, pos |-> mem.pos,
   val |-> [cls |-> "JObject", keys |-> mem.keys, vals |-> mem.vals,
            json_container_tail |-> mem.tail,
            json_container_trailing_comma |-> mem.comma]]

\* the value starting at p, without the atoms around it
CoreAt(t, p, e) ==
  CASE At(t, p) \in Quotes -> ParseString(t, p)
    [] At(t, p) = "[" -> ArrayOf(ParseItems(t, p + 1, <<>>))
    [] At(t, p) = "{" -> ObjectOf(ParseMembers(t, p + 1, <<>>, <<>>))
    [] OTHER -> TokenAt(ParseToken(SubSeq(t, p, e - 1)), p, e)

ValueThen(t, w1, core) == Styled(w1, core, SkipWsc(t, core.pos))

ValueAfter(t, w1) == ValueThen(t, w1, CoreAt(t, w1.pos, TokenEnd(t, w1.pos)))

\* a value with the whitespace and comments around it: [ok, val, pos]
ParseValue(t, i) == ValueAfter(t, SkipWsc(t, i))

\* the document is the value and nothing after it
Whole(src, r) == [ok |-> r.ok /\ r.pos = Len(src) + 1, val |-> r.val]

\* loads(src): [ok, val]; ok = FALSE is a syntax error
loads(src) == Whole(src, ParseValue(src, 1))

(* ------------------------------ inputs -------------------------------- *)
SeqsUpTo(S, n) == UNION {[1..k -> S] : k \in 0..n}

Str_(t) == [cls |-> "str", s |-> t]
Int_(n) == [cls |-> "int", v |-> n]
Bool_(b) == [cls |-> "bool", b |-> b]
None_ == [cls |-> "NoneType"]
Date_(d) == [cls |-> "date", day |-> d]

TextChars == {"a", "\"", "'", "\\", "\n", "<LS>"}
Texts == SeqsUpTo(TextChars, MaxStrLen)

Space == [kind |-> "ws", text |-> <<" ">>]
Note == [kind |-> "block", text |-> <<"c">>]
WscInputs == {<<>>, <<Space, Note>>}

HostInts == {Int_(n) : n \in -MaxInt..MaxInt}
HostFloats ==
  {[cls |-> "float", f |-> Fin(5 * n)] : n \in -MaxInt..MaxInt}
    \cup {[cls |-> "float", f |-> x] : x \in {NaN, PosInf, NegInf}}
HostOpaque == {Date_(1), Date_(2), [cls |-> "Enum", day |-> 1]}
HostScalars ==
  HostInts \cup HostFloats \cup {Bool_(TRUE), Bool_(FALSE), None_}
    \cup HostOpaque \cup {Str_(t) : t \in Texts} \cup {[cls |-> "object"]}

\* the spellings of numbers a caller or a document gives as origin text
IntegerTexts == {<<"5">>, <<"-", "5">>, <<"+", "5">>, <<"0">>}
HexTexts == {<<"0", "x", "1", "A">>, <<"-", "0", "x", "1", "A">>, <<"0", "X", "f">>, <<"0", "x", "1", "a">>}
FloatTexts ==
  {<<"1", ".", "5">>, <<"-", "1", "e", "1">>, <<".", "5">>, <<"+", "5", ".">>,
   <<"N", "a", "N">>, <<"-", "I", "n", "f", "i", "n", "i", "t", "y">>}
NumberTexts == IntegerTexts \cup HexTexts \cup FloatTexts

\* the values prefixed can have; "unset" is an instance without the attribute
WithPrefixed(o, p) == IF p = "unset" THEN o ELSE [prefixed |-> (p = "yes")] @@ o

\* a number without its attributes
Bare(n) == [x \in {"cls", "v", "f"} \cap DOMAIN n |-> n[x]]

\* the magnitude a spelling stands for, as an instance of its class
Magnitude(t) == Bare(ParseNumber(t).val)

\* numbers as a caller builds them: the class called on a magnitude, then
\* __post_init__(origin), then perhaps the attribute prefixed
JNumbers ==
  {WithPrefixed(JNumberPostInit(Magnitude(t), t), p) :
     t \in NumberTexts, p \in {"unset", "yes", "no"}}
  \cup {WithPrefixed(convert(h).val, p) :
          h \in HostInts \cup HostFloats, p \in {"unset", "yes", "no"}}
  \cup {JNumberPostInit([cls |-> "BoolWrapper", v |-> IF b THEN 1 ELSE 0, value |-> Bool_(b)],
                        <<>>) : b \in BOOLEAN}

JStrings ==
  {JStringPostInit([cls |-> "JString", s |-> t], q, l) :
     t \in Texts, q \in Quotes, l \in {<<>>, <<1>>, <<2>>}}

Identifiers == {JTypePostInit([cls |-> "Identifier", s |-> <<"a">>])}

JWrappers ==
  {JTypePostInit([cls |-> "JWrapper", value |-> h]) :
     h \in {Bool_(TRUE), Bool_(FALSE), None_} \cup HostOpaque}

\* the entries a container input is filled with
Leaves ==
  {Int_(0), Int_(1),
   convert(Int_(-1)).val,
   [json_before |-> <<Note>>] @@ convert(Date_(1)).val,
   [cls |-> "list", items |-> <<Int_(0)>>, ids |-> <<1>>]}

\* the identities the entries of a sequence can have: ids[i] is the first
\* position holding the same object; one object is one value, and each of
\* True, False and None is a single object
IdChoices(items) ==
  {ids \in [1..Len(items) -> 1..Len(items)] :
     \A i \in 1..Len(items) :
       /\ ids[i] <= i /\ ids[ids[i]] = ids[i]
       /\ items[ids[i]] = items[i]
       /\ \A j \in 1..(i - 1) :
            items[j] = items[i] /\ items[i].cls \in {"bool", "NoneType"} => ids[j] = ids[i]}

HostLists ==
  UNION {{[cls |-> c, items |-> items, ids |-> ids] :
            c \in {"list", "tuple"}, ids \in IdChoices(items)} :
         items \in SeqsUpTo(Leaves, MaxLen)}

Arrays ==
  {JContainerPostInit(Rewrap(l, "Array"), <<>>, tc) :
     l \in {h \in HostLists : h.cls = "list"}, tc \in BOOLEAN}

KeyInputs ==
  {Str_(<<"k">>), JTypePostInit([cls |-> "Identifier", s |-> <<"i">>]),
   JStringPostInit([cls |-> "JString", s |-> <<"j">>], SINGLE, <<>>)}

DictValues ==
  {Int_(0), Int_(1), convert(None_).val, [json_before |-> <<Note>>] @@ convert(Date_(1)).val}

HostDicts ==
  UNION {{[cls |-> "dict", keys |-> ks, vals |-> vs] : vs \in [1..Len(ks) -> DictValues]} :
         ks \in {k \in SeqsUpTo(KeyInputs, MaxLen) :
                   \A i, j \in 1..Len(k) : i # j => k[i].s # k[j].s}}

JObjects ==
  {JContainerPostInit(Rewrap(d, "JObject"), <<>>, tc) :
     d \in HostDicts, tc \in BOOLEAN}

(* ---------------------------- documents ------------------------------- *)
RECURSIVE Join(_, _)
\* sep.join(parts)
Join(parts, sep) ==
  IF Len(parts) <= 1 THEN Flatten(parts)
  ELSE Head(parts) \o sep \o Join(Tail(parts), sep)

OtherQuote(q) == IF q = DOUBLE THEN SINGLE ELSE DOUBLE

\* what the body of a string quoted with q is made of: a letter, the escaped
\* quote, the escaped backslash, the escaped newline, the other quote as it is,
\* and an escaped line break
StringUnits(q) ==
  {<<"a">>, <<"\\", q>>, <<"\\", "\\">>, <<"\\", "n">>, <<OtherQuote(q)>>, <<"\\", "\n">>}

StringDocs ==
  UNION {{<<q>> \o Flatten(us) \o <<q>> : us \in SeqsUpTo(StringUnits(q), MaxStrLen)} :
         q \in Quotes}

LiteralDocs == {<<"t", "r", "u", "e">>, <<"f", "a", "l", "s", "e">>, <<"n", "u", "l", "l">>}

Padded(docs) ==
  {pre \o d \o post : d \in docs, pre \in {<<>>, <<" ">>}, post \in {<<>>, <<"/", "*", "c", "*", "/">>}}

\* the values a container document is filled with
ElementDocs ==
  {<<"-", "0", "x", "1", "A">>, <<"n", "u", "l", "l">>, <<"'", "a", "'">>, <<" ", "0", " ">>}

ArrayDocs ==
  {<<"[">> \o Join(es, <<",">>) \o end \o <<"]">> :
     es \in SeqsUpTo(ElementDocs, MaxLen), end \in {<<>>, <<" ">>}}
  \cup {<<"[">> \o Join(es, <<",">>) \o <<",">> \o end \o <<"]">> :
          es \in SeqsUpTo(ElementDocs, MaxLen) \ {<<>>}, end \in {<<>>, <<" ">>}}

KeyDocs == <<<<"a">>, <<"\"", "b", "\"", " ">>, <<" ", "c">>>>

ObjectDocs ==
  {<<"{">> \o Join([i \in 1..Len(es) |-> KeyDocs[i] \o <<":">> \o es[i]], <<",">>)
     \o end \o <<"}">> :
     es \in SeqsUpTo(ElementDocs, IF MaxLen < 3 THEN MaxLen ELSE 3),
     end \in {<<>>, <<",">>} }
  \ {<<"{", ",", "}">>}

\* the texts loads is given: all are documents of the grammar
DocTexts ==
  Padded(NumberTexts \cup LiteralDocs) \cup StringDocs \cup ArrayDocs \cup ObjectDocs

(* ---------------- the registry (model.py, domain.py) ------------------ *)
\* most calls of _insert_domain a run makes
MaxInserts == 3

\* the separator of the segments of a domain
Dot == "."

\* the segments of t from character i on, cur being the segment in progress
RECURSIVE SplitFrom(_, _, _, _)
SplitFrom(t, i, cur, acc) ==
  IF i > Len(t) THEN Append(acc, cur)
  ELSE IF t[i] = Dot THEN SplitFrom(t, i + 1, <<>>, Append(acc, cur))
  ELSE SplitFrom(t, i + 1, Append(cur, t[i]), acc)

\* tuple(domain.split("."))
Split(domain) == SplitFrom(domain, 1, <<>>, <<>>)

\* all(domain_tup): no segment is empty
AllSegments(domain_tup) == \A i \in 1..Len(domain_tup) : domain_tup[i] # <<>>

\* d.setdefault(k, default)
SetDefault(d, k, default) == IF k \in DOMAIN d THEN d ELSE (k :> default) @@ d

\* d[k] = v
SetItem(d, k, v) == (k :> v) @@ d

ValueErrorSegment == "ValueError: contains empty segment"
ImportErrorReg == "ImportError: cannot import name _reg"
NameErrorDomain == "NameError: is already occupied by"
RuntimeErrorInitialized == "RuntimeError: kayaku is already fully initialized"
NameErrorOccupied == "NameError: is occupied"
ValueErrorValidate == "ValueError: models failed to validate"

\* the domains a class statement names
DomainTexts ==
  {<<"a">>, <<"b">>, <<"a", ".", "f">>, <<"a", ".">>, <<>>}

\* the domain tuples without an empty segment among them
DomainTuples == {Split(t) : t \in {x \in DomainTexts : AllSegments(Split(x))}}

\* the ConfigModel subclasses a program defines: a name and __fields__
Classes ==
  {[name |-> "A", fields |-> <<"f">>],
   [name |-> "B", fields |-> <<"g">>],
   [name |-> "C", fields |-> <<>>]}

\* the files and sections the storage resolves a domain to
Paths == {"p", "q"}
Sections == {<<>>, <<"f">>}

VARIABLES
  domain_map,         \* domain.domain_map
  file_map,           \* domain.file_map
  initialized,        \* _Reg.initialized
  postponed,          \* _Reg.postponed
  model_path,         \* _Reg.model_path
  domain_occupation,  \* _Reg.domain_occupation
  look,               \* what lookup returns for each domain
  has_reg,            \* whether domain exports the name _reg model.py imports
  inserts,            \* how many calls of _insert_domain were made
  failed,             \* whether one of them raised
  rop,                \* the registry operation that ran last
  rerr,               \* the exception it raised, or "none"
  was                 \* domain_map and postponed as they were before it

reg == <<domain_map, file_map, initialized, postponed, model_path, domain_occupation,
         look, has_reg, inserts, failed, rop, rerr, was>>

\* the registry of a module just imported
RegFresh ==
  /\ domain_map = << >>
  /\ file_map = << >>
  /\ initialized = FALSE
  /\ postponed = <<>>
  /\ model_path = << >>
  /\ domain_occupation = << >>
  /\ inserts = 0
  /\ failed = FALSE
  /\ rop = "import"
  /\ rerr = "none"
  /\ was = [domain_map |-> << >>, postponed |-> <<>>]

\* the loop of _insert_domain over the fields from field i on: [occ, err]
RECURSIVE InsertFields(_, _, _, _, _)
InsertFields(occ, path, section, fields, i) ==
  IF i > Len(fields) THEN [occ |-> occ, err |-> "none"]
  ELSE IF Append(section, fields[i]) \in occ[path]
       THEN [occ |-> occ, err |-> NameErrorOccupied]
       ELSE InsertFields(SetItem(occ, path, occ[path] \cup {Append(section, fields[i])}),
                         path, section, fields, i + 1)

\* the end of _insert_domain, r being what the loop over the fields left
InsertEnd(st, cls, fmt_path, r) ==
  IF r.err # "none" THEN [st EXCEPT !.occ = r.occ, !.err = r.err]
  ELSE [occ |-> r.occ,
        fm |-> SetItem(st.fm, fmt_path.path,
                 SetItem(SetDefault(st.fm, fmt_path.path, << >>)[fmt_path.path],
                         fmt_path.section,
                         Append(SetDefault(SetDefault(st.fm, fmt_path.path, << >>)[fmt_path.path],
                                           fmt_path.section, <<>>)[fmt_path.section],
                                cls))),
        mp |-> SetItem(st.mp, cls, fmt_path),
        err |-> "none"]

\* _insert_domain once domain_occupation has the key path
InsertWith(st, cls, fmt_path, occ) ==
  IF fmt_path.section \in occ[fmt_path.path]
  THEN [st EXCEPT !.occ = occ, !.err = NameErrorOccupied]
  ELSE InsertEnd(st, cls, fmt_path,
                 InsertFields(occ, fmt_path.path, fmt_path.section, cls.fields, 1))

\* _insert_domain(domains) on the registry st = [occ, fm, mp, err], with
\* cls = domain_map[domains] and fmt_path = lookup(list(domains))
insert_domain(st, cls, fmt_path) ==
  InsertWith(st, cls, fmt_path, SetDefault(st.occ, fmt_path.path, {}))

\* the loop of _bootstrap from postponed[i] on; an exception ends it
RECURSIVE InsertAll(_, _, _, _, _)
InsertAll(st, dm, lk, ds, i) ==
  IF i > Len(ds) \/ st.err # "none" THEN [st |-> st, n |-> i - 1]
  ELSE InsertAll(insert_domain(st, dm[ds[i]], lk[ds[i]]), dm, lk, ds, i + 1)

(* ---------------------------- the caller ------------------------------ *)
\* the attributes that hold formatting, not value, and what a caller sets
\* them to
Restylings(o) ==
  IF ~IsInstance(o, {"JType"}) THEN {}
  ELSE ({[json_before |-> w] @@ o : w \in WscInputs}
        \cup {[json_after |-> w] @@ o : w \in WscInputs}
        \cup (IF IsInstance(o, {"JContainer"})
              THEN {[json_container_tail |-> w] @@ o : w \in WscInputs}
                     \cup {[json_container_trailing_comma |-> b] @@ o : b \in BOOLEAN}
              ELSE {})
        \cup (IF IsInstance(o, {"JString"})
              THEN {[quote |-> q] @@ o : q \in Quotes}
                     \cup {[linebreaks |-> l] @@ o : l \in {<<>>, <<1>>}}
              ELSE {})
        \cup (IF IsInstance(o, {"JNumber"})
              THEN {[origin |-> t] @@ o :
                      t \in {<<>>} \cup (CASE o.cls = "Integer" -> IntegerTexts
                                          [] o.cls = "HexInteger" -> HexTexts
                                          [] o.cls = "Float" -> FloatTexts
                                          [] OTHER -> {})}
                     \cup {[prefixed |-> b] @@ o : b \in BOOLEAN}
              ELSE {}))
       \ {o}

\* a number of another class with the same magnitude, a literal of the other
\* wrapper class with the same value
Twins(o) ==
  CASE o.cls \in {"Integer", "HexInteger"} ->
         {[o EXCEPT !.cls = IF o.cls = "Integer" THEN "HexInteger" ELSE "Integer"],
          JNumberPostInit([cls |-> "Float", f |-> Fin(10 * o.v)], <<>>)}
    [] o.cls = "JWrapper" /\ o.value.cls = "bool" ->
         {JNumberPostInit([cls |-> "BoolWrapper", v |-> IntOf(o.value), value |-> o.value],
                          <<>>)}
    [] o.cls = "BoolWrapper" -> {JTypePostInit([cls |-> "JWrapper", value |-> o.value])}
    [] OTHER -> {}

NoResult == [eq |-> FALSE, qe |-> FALSE, ha |-> BuiltinHash(None_), hb |-> BuiltinHash(None_)]

VARIABLES
  obj,     \* the value the caller holds: a plain host value or a JType
  src,     \* the text obj was parsed from, while the caller has not changed it
  edits,   \* how many times the caller changed the magnitude of obj
  op,      \* the operation that ran last
  arg,     \* what it was given
  fp,      \* the sink of the last dumps
  raised,  \* the exception the last operation raised, or "none"
  res      \* the result of the last comparison

\* the variables of the backend
enc == <<obj, src, edits, op, arg, fp, raised, res>>

vars == <<enc, reg>>

Init ==
  /\ obj \in HostScalars \cup {Str_(t) : t \in DocTexts} \cup HostLists \cup HostDicts \cup JNumbers \cup JStrings
              \cup Identifiers \cup JWrappers \cup Arrays \cup JObjects
  /\ src = <<>>
  /\ edits = 0
  /\ op = "init"
  /\ arg = None_
  /\ fp = <<>>
  /\ raised = "none"
  /\ res = NoResult
  /\ RegFresh
  /\ look = [d \in DomainTuples |-> [path |-> "p", section |-> <<>>]]
  /\ has_reg = TRUE

\* obj = loads(obj), obj a str; a text outside the grammar is a syntax error
Loads ==
  /\ obj.cls = "str"
  /\ \E r \in {loads(obj.s)} :
       /\ obj' = IF r.ok THEN r.val ELSE obj
       /\ src' = IF r.ok THEN obj.s ELSE <<>>
       /\ raised' = IF r.ok THEN "none" ELSE "SyntaxError"
  /\ op' = "loads"
  /\ arg' = obj
  /\ fp' = <<>>
  /\ res' = NoResult
  /\ UNCHANGED edits
  /\ UNCHANGED reg

\* dumps(obj)
Dumps ==
  /\ op' = "dumps"
  /\ arg' = obj
  /\ \E r \in {dumps(obj)} : fp' = r.out /\ raised' = r.err
  /\ res' = NoResult
  /\ UNCHANGED <<obj, src, edits>>
  /\ UNCHANGED reg

\* obj = convert(obj)
Convert ==
  /\ op' = "convert"
  /\ arg' = obj
  /\ \E r \in {convert(obj)} :
       /\ obj' = IF r.ok THEN r.val ELSE obj
       /\ raised' = IF r.ok THEN "none" ELSE "TypeError"
  /\ fp' = <<>>
  /\ res' = NoResult
  /\ UNCHANGED <<src, edits>>
  /\ UNCHANGED reg

\* the caller sets one formatting attribute of obj; a comparison changes
\* nothing, so what the caller does next is taken from the state before it
Restyle(r) ==
  /\ op # "compare"
  /\ r \in Restylings(obj)
  /\ obj' = r
  /\ src' = <<>>
  /\ op' = "restyle"
  /\ arg' = r
  /\ fp' = <<>>
  /\ raised' = "none"
  /\ res' = NoResult
  /\ UNCHANGED edits
  /\ UNCHANGED reg

\* the caller replaces the magnitude of the number obj, keeping its attributes
SetMagnitude(d) ==
  /\ op # "compare"
  /\ edits < MaxEdits
  /\ obj.cls \in {"Integer", "HexInteger", "Float"}
  /\ obj.cls = "Float" => obj.f.fk = "fin"
  /\ obj' = IF obj.cls = "Float" THEN [obj EXCEPT !.f = Fin(@.t + 5 * d)]
            ELSE [obj EXCEPT !.v = @ + d]
  /\ edits' = edits + 1
  /\ src' = <<>>
  /\ op' = "magnitude"
  /\ arg' = obj
  /\ fp' = <<>>
  /\ raised' = "none"
  /\ res' = NoResult
  /\ UNCHANGED reg

\* obj == b, b == obj, hash(obj), hash(b), b being obj under other formatting
\* or a twin of obj
Compare(b) ==
  /\ op # "compare"
  /\ b \in Restylings(obj) \cup Twins(obj)
  /\ op' = "compare"
  /\ arg' = b
  /\ res' = [eq |-> PyEq(obj, b), qe |-> PyEq(b, obj), ha |-> PyHash(obj), hb |-> PyHash(b)]
  /\ fp' = <<>>
  /\ raised' = "none"
  /\ UNCHANGED <<obj, src, edits>>
  /\ UNCHANGED reg

Next ==
  \/ Loads
  \/ Dumps
  \/ Convert
  \/ \E r \in Restylings(obj) : Restyle(r)
  \/ \E d \in (-MaxDelta..MaxDelta) \ {0} : SetMagnitude(d)
  \/ \E b \in Restylings(obj) \cup Twins(obj) : Compare(b)

Spec == Init /\ [][Next]_vars

(* ------------------------- the registry at work ----------------------- *)
\* a program that only defines models and initializes: the backend is idle,
\* and lookup resolves each domain to some file and section
RegInit ==
  /\ obj = None_
  /\ src = <<>>
  /\ edits = 0
  /\ op = "init"
  /\ arg = None_
  /\ fp = <<>>
  /\ raised = "none"
  /\ res = NoResult
  /\ RegFresh
  /\ look \in [DomainTuples -> [path : Paths, section : Sections]]
  /\ has_reg \in BOOLEAN

\* the classes domain_map holds
Registered == {domain_map[d] : d \in DOMAIN domain_map}

\* ConfigModel.__init_subclass__ once domain_tup = tuple(domain.split("."));
\* domain.py defines the registry as _Reg and model.py imports _reg: either
\* the import raises, or _reg is that registry
InitSubclass(cls, domain_tup) ==
  /\ was' = [domain_map |-> domain_map, postponed |-> postponed]
  /\ rop' = "define"
  /\ IF ~AllSegments(domain_tup)
     THEN rerr' = ValueErrorSegment /\ UNCHANGED <<domain_map, postponed>>
     ELSE IF ~has_reg
     THEN rerr' = ImportErrorReg /\ UNCHANGED <<domain_map, postponed>>
     ELSE IF domain_tup \in DOMAIN domain_map
     THEN rerr' = NameErrorDomain /\ UNCHANGED <<domain_map, postponed>>
     ELSE /\ domain_map' = SetItem(domain_map, domain_tup, cls)
          /\ IF initialized
             THEN rerr' = RuntimeErrorInitialized /\ UNCHANGED postponed
             ELSE rerr' = "none" /\ postponed' = Append(postponed, domain_tup)
  /\ UNCHANGED <<file_map, initialized, model_path, domain_occupation, look, has_reg,
                  inserts, failed>>
  /\ UNCHANGED enc

\* class cls(ConfigModel, domain=domain): ...; each class is defined once
DefineSubclass(cls, domain) ==
  /\ cls \notin Registered
  /\ InitSubclass(cls, Split(domain))

\* what a run of _insert_domain calls left: st = [occ, fm, mp, err] after n calls
Inserted(st, n) ==
  /\ domain_occupation' = st.occ
  /\ file_map' = st.fm
  /\ model_path' = st.mp
  /\ inserts' = inserts + n
  /\ failed' = (failed \/ st.err # "none")

\* the registry as _insert_domain reads it
RegNow == [occ |-> domain_occupation, fm |-> file_map, mp |-> model_path, err |-> "none"]

\* _insert_domain(domains), called on a registered domain
InsertDomain(domains) ==
  /\ inserts < MaxInserts
  /\ domains \in DOMAIN domain_map
  /\ \E st \in {insert_domain(RegNow, domain_map[domains], look[domains])} :
       Inserted(st, 1) /\ rerr' = st.err
  /\ rop' = "insert"
  /\ UNCHANGED <<domain_map, initialized, postponed, look, has_reg, was>>
  /\ UNCHANGED enc

\* _bootstrap(): the postponed domains are inserted, the files are written
\* and validated (ok is whether every model validated), then the flag is set
Bootstrap(ok) ==
  /\ inserts + Len(postponed) <= MaxInserts
  /\ \E r \in {InsertAll(RegNow, domain_map, look, postponed, 1)} :
       /\ Inserted(r.st, r.n)
       /\ rerr' = IF r.st.err # "none" THEN r.st.err
                  ELSE IF ok THEN "none" ELSE ValueErrorValidate
       /\ initialized' = (initialized \/ (r.st.err = "none" /\ ok))
  /\ rop' = "bootstrap"
  /\ UNCHANGED <<domain_map, postponed, look, has_reg, was>>
  /\ UNCHANGED enc

RegNext ==
  \/ \E cls \in Classes, domain \in DomainTexts : DefineSubclass(cls, domain)
  \/ \E domains \in DomainTuples : InsertDomain(domains)
  \/ \E ok \in BOOLEAN : Bootstrap(ok)

RegSpec == RegInit /\ [][RegNext]_vars

(* ------------------------------ properties ---------------------------- *)
\* the attributes that hold formatting
StyleFields ==
  {"json_before", "json_after", "json_container_head", "json_container_tail",
   "json_container_trailing_comma", "quote", "linebreaks", "origin", "prefixed"}

RECURSIVE Strip(_)
\* the logical value of o: o without its formatting, at every depth
Strip(o) ==
  [x \in DOMAIN o \ StyleFields |->
     CASE x \in {"items", "keys", "vals"} -> [i \in 1..Len(o[x]) |-> Strip(o[x][i])]
       [] x = "value" -> Strip(o[x])
       [] OTHER -> o[x]]

RECURSIVE HasNaN(_)
\* a NaN somewhere in o: a NaN is unequal to every value, itself included
HasNaN(o) ==
  \/ "f" \in DOMAIN o /\ o.f.fk = "nan"
  \/ "value" \in DOMAIN o /\ HasNaN(o.value)
  \/ "items" \in DOMAIN o /\ \E i \in 1..Len(o.items) : HasNaN(o.items[i])
  \/ "vals" \in DOMAIN o /\ \E i \in 1..Len(o.vals) : HasNaN(o.vals[i])

\* a Literal wrapper whose value is none of true, false, null
IsOpaqueLiteral(o) == o.cls = "JWrapper" /\ o.value.cls \notin {"bool", "NoneType"}

RECURSIVE HasOpaque(_)
\* the tree o contains such a wrapper
HasOpaque(o) ==
  \/ IsOpaqueLiteral(o)
  \/ "items" \in DOMAIN o /\ \E i \in 1..Len(o.items) : HasOpaque(o.items[i])
  \/ "vals" \in DOMAIN o /\ \E i \in 1..Len(o.vals) : HasOpaque(o.vals[i])

RECURSIVE Normalized(_)
\* the tree o with null in the place of every such wrapped value
Normalized(o) ==
  IF IsOpaqueLiteral(o) THEN [o EXCEPT !.value = None_]
  ELSE [x \in DOMAIN o |->
          CASE x \in {"items", "vals"} -> [i \in 1..Len(o[x]) |-> Normalized(o[x][i])]
            [] OTHER -> o[x]]

RECURSIVE IsFidelityValue(_)
\* o is a JType, and so is every entry of o at every depth
IsFidelityValue(o) ==
  /\ IsInstance(o, {"JType"})
  /\ "items" \in DOMAIN o => \A i \in 1..Len(o.items) : IsFidelityValue(o.items[i])
  /\ "vals" \in DOMAIN o => \A i \in 1..Len(o.vals) : IsFidelityValue(o.vals[i])

\* o as the encoder should write it between the atoms before and after it
Styled_(o, body) == WscText(json_before(o)) \o body \o WscText(json_after(o))

\* C1: round-trip identity: dumps of the tree loads built from a text T, with
\* no change in between, completes and writes exactly T
C1_RoundTrip == (op = "dumps" /\ src # <<>>) => (raised = "none" /\ fp = src)

\* C2: for a Number whose sign flag is recorded and not set, the encoder
\* writes the origin text when it is present and re-parses to the magnitude,
\* and the canonical form of the magnitude otherwise: the text
\* __round_dump__ gives
C2_NumberRule ==
  (/\ op = "dumps"
   /\ arg.cls \in {"Integer", "HexInteger", "Float"}
   /\ "prefixed" \in DOMAIN arg /\ ~arg.prefixed
   /\ RoundDump(arg).ok)
  => (raised = "none" /\ fp = Styled_(arg, RoundDump(arg).out))

\* the two-character escape of c in a string quoted with q
C3_Escape(c, q) ==
  CASE c = "\\" -> <<"\\", "\\">>
    [] c = q -> <<"\\", q>>
    [] c = "\n" -> <<"\\", "n">>
    [] OTHER -> <<c>>

\* C3: a String with quote style q and no escaped line break is written as q,
\* the text with every backslash, every q and every control character
\* replaced by its two-character escape, and q
C3_StringEscaping ==
  (/\ op = "dumps"
   /\ arg.cls = "JString"
   /\ linebreaks(arg) = <<>>
   /\ Range(arg.s) \subseteq {"a", "\"", "'", "\\", "\n"})
  => (/\ raised = "none"
      /\ fp = Styled_(arg, <<quote(arg)>>
                             \o Flatten([i \in 1..Len(arg.s) |-> C3_Escape(arg.s[i], quote(arg))])
                             \o <<quote(arg)>>))

\* the entries of a container as the encoder writes each of them
C4_Entries(o) ==
  IF "items" \in DOMAIN o THEN [i \in 1..Len(o.items) |-> encode(o.items[i])]
  ELSE [i \in 1..Len(o.keys) |-> encode_pair(o.keys[i], o.vals[i])]

\* the entries es with a comma after each of the first n - 1 and, if the flag
\* is set, after the last
C4_Separated(es, flag) ==
  Flatten([i \in 1..Len(es) |->
             es[i].out \o (IF i < Len(es) \/ flag THEN <<",">> ELSE <<>>)])

\* C4: a container whose entries encode is written with a comma after each of
\* its first n - 1 entries, and after the last one iff its trailing-comma flag
\* is set, whether or not entries repeat
C4_SeparatorPolicy ==
  (/\ op = "dumps"
   /\ IsInstance(arg, {"dict", "list", "tuple"})
   /\ \A i \in DOMAIN C4_Entries(arg) : C4_Entries(arg)[i].err = "none")
  => (/\ raised = "none"
      /\ fp = Styled_(arg,
                (IF "items" \in DOMAIN arg THEN <<"[">> ELSE <<"{">>)
                  \o WscText(Attr(arg, "json_container_head", <<>>))
                  \o C4_Separated(C4_Entries(arg),
                                  Attr(arg, "json_container_trailing_comma", FALSE))
                  \o WscText(Attr(arg, "json_container_tail", <<>>))
                  \o (IF "items" \in DOMAIN arg THEN <<"]">> ELSE <<"}">>)))

\* C5: convert of a plain sequence or mapping returns a container in which
\* every entry is a fidelity-model value, at every depth
C5_ElementWise ==
  (op = "convert" /\ arg.cls \in {"list", "tuple", "dict"} /\ raised = "none")
  => IsFidelityValue(obj)

\* C6: a Number convert built from a plain integer or finite float x encodes
\* without error as the canonical spelling of x, with no leading +
C6_ConvertedNumberEncodes ==
  (/\ op = "dumps"
   /\ \E h \in HostInts \cup {x \in HostFloats : x.f.fk = "fin"} : arg = convert(h).val)
  => (/\ raised = "none"
      /\ fp = IF arg.cls = "Integer" THEN IntRepr(arg.v) ELSE FloatRepr(arg.f))

\* C7: convert returns a fidelity-model value as it is, with its value and all
\* of its formatting; what convert returns is a fidelity-model value, so a
\* second convert changes nothing
C7_ConvertIdentity ==
  /\ (op = "convert" /\ IsInstance(arg, {"JType"})) => (raised = "none" /\ obj = arg)
  /\ (op = "convert" /\ raised = "none") => IsInstance(obj, {"JType"})

\* a container that carries formatting has been converted
C7_Witness ==
  /\ op = "convert"
  /\ IsInstance(arg, {"JContainer"})
  /\ json_before(arg) # <<>>
  /\ Attr(arg, "json_container_trailing_comma", FALSE)
  /\ obj = arg

\* C8: == and hash of two values give what they give on the values without
\* their formatting; two fidelity-model values with the same logical value,
\* no NaN in it, are equal both ways and hash alike
C8_FormatIndependence ==
  op = "compare" =>
    /\ res.eq = PyEq(Strip(obj), Strip(arg))
    /\ res.qe = PyEq(Strip(arg), Strip(obj))
    /\ res.ha = PyHash(Strip(obj))
    /\ res.hb = PyHash(Strip(arg))
    /\ (/\ IsInstance(obj, {"JType"}) /\ IsInstance(arg, {"JType"})
        /\ Strip(obj) = Strip(arg) /\ ~HasNaN(obj))
         => (res.eq /\ res.qe /\ res.ha = res.hb)

\* a literal has been compared with itself under other formatting
C8_Witness ==
  /\ op = "compare"
  /\ obj.cls = "JWrapper"
  /\ json_before(obj) # json_before(arg)
  /\ Strip(obj) = Strip(arg)
  /\ res.eq /\ res.qe /\ res.ha = res.hb

\* C9: encoding a tree that contains a Literal wrapper holding none of true,
\* false, null raises; when the wrapper is what raised, the sink holds exactly
\* what comes before null in the encoding of the tree with null in its place:
\* the text written before the failure, the atoms before the literal
\* included, and nothing after it
C9_OpaqueAborts ==
  (op = "dumps" /\ HasOpaque(arg)) =>
    /\ raised # "none"
    /\ IsPrefix(fp, encode(Normalized(arg)).out)
    /\ raised = UnknownLiteral
         => IsPrefix(fp \o <<"n", "u", "l", "l">>, encode(Normalized(arg)).out)
    /\ encode(Normalized(arg)).err = "none" => raised = UnknownLiteral

\* a sequence has been encoded up to an opaque literal that has atoms before
\* and after it
C9_Witness ==
  /\ op = "dumps"
  /\ arg.cls = "Array"
  /\ Len(arg.items) = MaxLen
  /\ IsOpaqueLiteral(arg.items[MaxLen])
  /\ json_before(arg.items[MaxLen]) # <<>>
  /\ json_after(arg) # <<>>
  /\ raised = UnknownLiteral
  /\ Len(fp) > Len(WscText(json_before(arg.items[MaxLen])))

\* C10: a plain boolean, a JWrapper holding a boolean and a BoolWrapper are
\* each written as true or false
C10_BooleanLiteral ==
  (/\ op = "dumps"
   /\ arg.cls = "bool" \/ (arg.cls \in {"JWrapper", "BoolWrapper"} /\ arg.value.cls = "bool"))
  => (/\ raised = "none"
      /\ fp = Styled_(arg, IF (IF arg.cls = "bool" THEN arg.b ELSE arg.value.b)
                            THEN <<"t", "r", "u", "e">>
                            ELSE <<"f", "a", "l", "s", "e">>))

\* two registered models of one file, the section of one being the section
\* of the other extended by the name of one of its fields
Overlap ==
  \E path \in DOMAIN file_map :
    \E sa \in DOMAIN file_map[path], sb \in DOMAIN file_map[path] :
      \E i \in 1..Len(file_map[path][sa]) :
        \E j \in 1..Len(file_map[path][sa][i].fields) :
          sb = Append(sa, file_map[path][sa][i].fields[j])

\* C11: once initialized is set, defining a ConfigModel subclass raises and
\* leaves domain_map and postponed as they were
C11_LateRegistration ==
  (rop = "define" /\ initialized)
  => (rerr # "none" /\ domain_map = was.domain_map /\ postponed = was.postponed)

\* C12: while every call of _insert_domain has returned without error, no
\* file has two registered models one of whose sections is the other's
\* extended by one of its field names, in whichever order they were inserted
C12_ExclusiveSections == ~failed => ~Overlap
====
